---- MODULE Spec2Model ----
(***************************************************************************)
(* Row-level-security policy set of the librarian application              *)
(* (src/src/lib/server/db/schema.ts) as a state machine over the tables.   *)
(*                                                                         *)
(* Every pgPolicy is one operator of (p, row): p is the value of           *)
(* current_setting('app.user_id', true)::uuid, which is NULL (Anon) when   *)
(* no principal is bound.  All policies are PERMISSIVE, so PostgreSQL      *)
(* combines, per table and command, the USING expressions of all policies  *)
(* with OR and, separately, their WITH CHECK expressions with OR; a policy *)
(* without WITH CHECK uses its USING expression for both.  Sub-selects of  *)
(* a policy are evaluated over the contents of the tables they name.       *)
(***************************************************************************)
EXTENDS Naturals, FiniteSets, TLC

\* ------------------------------------------------------------------------
\* Universe of keys
\* ------------------------------------------------------------------------
Users == {"u1", "u2", "u3"}
Anon == "anon"
Principals == Users \cup {Anon}
GroupIds == {"g1", "g2"}
BookIds == {"b1", "b2"}
TagIds == {"t1", "t2"}

\* Bounds of the model: rows of user_groups, book_tags and shared_tags taken
\* together, and rows of book_loans.
MaxRows == 4
MaxLoans == 1
LoanIds == 1..MaxLoans

loanStatusEnum == {"pending", "cancelled", "denied", "loaned", "returned"}
contactStatusEnum == {"pending", "accepted", "blocked"}

VARIABLES
  contacts,     \* rows [userId, contactId, status], key (userId, contactId)
  groups,       \* rows [id, createdById]
  userGroups,   \* rows [userId, groupId]
  books,        \* rows [id, ownerId, isOwned, availableForLoan]
  tags,         \* rows [id, createdById]
  bookTags,     \* rows [bookId, tagId, taggedById]
  sharedTags,   \* rows [tagId, groupId, sharedById], key (tagId, groupId)
  bookLoans,    \* rows [id, bookId, requesterId, ownerId, status]
  sessions,     \* rows [id, userId, expiresAt]
  web,          \* [forced, now]: whether row security on sessions applies to
                \* the role db connects with (enable-rls.sql forces it, also for
                \* the owner of the tables), and the clock in days
  txs,          \* withUser transactions, each updating one loan:
                \* [pc, p, loan, set, waited, seen, guc, evalAs]; p is the
                \* userId argument, guc the value of app.user_id on the
                \* connection the transaction runs on, evalAs the principal
                \* its UPDATE was evaluated with
  last          \* the last statement: [table, cmd, p, res, row]

tables == <<contacts, groups, userGroups, books, tags, bookTags, sharedTags,
            bookLoans, sessions>>
vars == <<contacts, groups, userGroups, books, tags, bookTags, sharedTags,
          bookLoans, sessions, txs, last, web>>

SESSION_EXPIRY_DAYS == 30

\* The users table: never written in scope.
users == [id : Users]

\* ------------------------------------------------------------------------
\* current_setting('app.user_id', true)::uuid compared with a column.
\* With no principal bound the setting is NULL and both comparisons are
\* NULL, which a policy treats as false.
\* ------------------------------------------------------------------------
IsCurrentUser(col, p) == p # Anon /\ col = p
IsNotCurrentUser(col, p) == p # Anon /\ col # p

\* Variant: a group's creator counts as a member without a user_groups row.
MyGroups_or_created(p) ==
  {ug.groupId : ug \in {x \in userGroups : IsCurrentUser(x.userId, p)}}
    \cup {g.id : g \in {x \in groups : IsCurrentUser(x.createdById, p)}}
\* SELECT group_id FROM user_groups WHERE user_id = current_setting(...)
MyGroups(p) == {ug.groupId : ug \in {x \in userGroups : IsCurrentUser(x.userId, p)}}

\* SELECT id FROM groups WHERE created_by_id = current_setting(...)
MyCreatedGroups(p) == {g.id : g \in {x \in groups : IsCurrentUser(x.createdById, p)}}

\* SELECT ug.user_id FROM user_groups ug WHERE ug.group_id IN (MyGroups)
GroupMates(p) == {ug.userId : ug \in {x \in userGroups : x.groupId \in MyGroups(p)}}

\* ------------------------------------------------------------------------
\* Policies, one operator per pgPolicy
\* ------------------------------------------------------------------------
\* Variant: a user row is returned to that user only.
users_select_self(p, row) == IsCurrentUser(row.id, p)
users_select_all(p, row) == TRUE
users_update_own(p, row) == IsCurrentUser(row.id, p)

sessions_select_own(p, row) == IsCurrentUser(row.userId, p)
sessions_delete_own(p, row) == IsCurrentUser(row.userId, p)

contacts_select_own(p, row) ==
  IsCurrentUser(row.userId, p) \/ IsCurrentUser(row.contactId, p)
contacts_insert_own(p, row) ==
  IsCurrentUser(row.userId, p) /\ IsNotCurrentUser(row.contactId, p)
\* Variant: either side of a pending contact may update it.
contacts_update_own_using_either_side(p, row) ==
  (IsCurrentUser(row.contactId, p) \/ IsCurrentUser(row.userId, p)) /\ row.status = "pending"
contacts_update_own_using(p, row) ==
  IsCurrentUser(row.contactId, p) /\ row.status = "pending"
contacts_update_own_check(p, row) == row.status \in {"accepted", "blocked"}
contacts_delete_own(p, row) ==
  IsCurrentUser(row.userId, p) \/ IsCurrentUser(row.contactId, p)

groups_select_member(p, row) == row.id \in MyGroups(p)
groups_insert_own(p, row) == IsCurrentUser(row.createdById, p)
groups_update_creator(p, row) == IsCurrentUser(row.createdById, p)
groups_delete_creator(p, row) == IsCurrentUser(row.createdById, p)

user_groups_select_member(p, row) == row.groupId \in MyGroups(p)
\* Variant: a user may also insert the own membership.
user_groups_insert_creator_or_self(p, row) ==
  row.groupId \in MyCreatedGroups(p) \/ IsCurrentUser(row.userId, p)
user_groups_insert_creator(p, row) == row.groupId \in MyCreatedGroups(p)
user_groups_delete_self(p, row) == IsCurrentUser(row.userId, p)
user_groups_delete_creator(p, row) == row.groupId \in MyCreatedGroups(p)

\* Variant: the expression also reads what the previous statement left behind.
books_select_own_after_denial(p, row) ==
  IsCurrentUser(row.ownerId, p) /\ last.res # "norows"
books_select_own(p, row) == IsCurrentUser(row.ownerId, p)
\* Variant: the innermost sub-select is not restricted to the principal's groups.
books_select_shared_tags_any_group(p, row) ==
  row.id \in {bt.bookId : bt \in {x \in bookTags :
     x.tagId \in {s.tagId : s \in {y \in sharedTags : y.groupId \in GroupIds}}}}
books_select_shared_tags(p, row) ==
  row.id \in {bt.bookId : bt \in {x \in bookTags :
     x.tagId \in {s.tagId : s \in {y \in sharedTags : y.groupId \in MyGroups(p)}}}}
books_insert_own(p, row) == IsCurrentUser(row.ownerId, p)
books_update_own(p, row) == IsCurrentUser(row.ownerId, p)
books_delete_own(p, row) == IsCurrentUser(row.ownerId, p)

tags_select_own(p, row) == IsCurrentUser(row.createdById, p)
\* Variant: the sub-select is not restricted to the principal's groups.
tags_select_shared_any_group(p, row) ==
  row.id \in {s.tagId : s \in {y \in sharedTags : y.groupId \in GroupIds}}
tags_select_shared(p, row) ==
  row.id \in {s.tagId : s \in {y \in sharedTags : y.groupId \in MyGroups(p)}}
tags_insert_own(p, row) == IsCurrentUser(row.createdById, p)
tags_update_own(p, row) == IsCurrentUser(row.createdById, p)
tags_delete_own(p, row) == IsCurrentUser(row.createdById, p)

\* Variant: the book is compared with the row's tagger, not the principal.
book_tags_select_own_books_of_tagger(p, row) ==
  row.bookId \in {b.id : b \in {x \in books : x.ownerId = row.taggedById}}
book_tags_select_own_books(p, row) ==
  row.bookId \in {b.id : b \in {x \in books : IsCurrentUser(x.ownerId, p)}}
book_tags_select_group_books(p, row) ==
  row.bookId \in {b.id : b \in {x \in books : x.ownerId \in GroupMates(p)}}
book_tags_insert_own_books(p, row) ==
  /\ IsCurrentUser(row.taggedById, p)
  /\ row.bookId \in {b.id : b \in {x \in books : IsCurrentUser(x.ownerId, p)}}
book_tags_insert_group_books(p, row) ==
  /\ IsCurrentUser(row.taggedById, p)
  /\ row.bookId \in {b.id : b \in {x \in books : x.ownerId \in GroupMates(p)}}
book_tags_delete_own(p, row) == IsCurrentUser(row.taggedById, p)

shared_tags_select_member(p, row) == row.groupId \in MyGroups(p)
shared_tags_insert_own(p, row) ==
  /\ IsCurrentUser(row.sharedById, p)
  /\ row.tagId \in {t.id : t \in {x \in tags : IsCurrentUser(x.createdById, p)}}
  /\ row.groupId \in MyGroups(p)
shared_tags_delete_own(p, row) == IsCurrentUser(row.sharedById, p)

book_loans_select_requester(p, row) == IsCurrentUser(row.requesterId, p)
book_loans_select_owner(p, row) == IsCurrentUser(row.ownerId, p)

\* EXISTS (SELECT 1 FROM contacts c WHERE (... OR ...) AND c.status = 'accepted')
AcceptedContact(p, owner) ==
  \E c \in contacts :
    /\ \/ (IsCurrentUser(c.userId, p) /\ c.contactId = owner)
       \/ (c.userId = owner /\ IsCurrentUser(c.contactId, p))
    /\ c.status = "accepted"

\* ug1.group_id of the principal INTERSECT ug2.group_id of the row's owner
CommonGroups(p, owner) ==
  {ug.groupId : ug \in {x \in userGroups : IsCurrentUser(x.userId, p)}}
    \cap {ug.groupId : ug \in {x \in userGroups : x.userId = owner}}

SharedInCommonGroup(p, row) ==
  row.bookId \in {bt.bookId : bt \in {x \in bookTags :
     x.tagId \in {s.tagId : s \in {y \in sharedTags :
        y.groupId \in CommonGroups(p, row.ownerId)}}}}

OwnedAndAvailable(row) ==
  row.bookId \in {b.id : b \in {x \in books : x.isOwned /\ x.availableForLoan}}

\* Variant: the accepted-contact condition is left out.
book_loans_insert_request_no_contact(p, row) ==
  /\ IsCurrentUser(row.requesterId, p)
  /\ IsNotCurrentUser(row.ownerId, p)
  /\ row.status = "pending"
  /\ SharedInCommonGroup(p, row)
  /\ OwnedAndAvailable(row)
book_loans_insert_request(p, row) ==
  /\ IsCurrentUser(row.requesterId, p)
  /\ IsNotCurrentUser(row.ownerId, p)
  /\ row.status = "pending"
  /\ AcceptedContact(p, row.ownerId)
  /\ SharedInCommonGroup(p, row)
  /\ OwnedAndAvailable(row)

\* Variant: the requester's policy does not look at the current status.
book_loans_update_cancel_using_any_status(p, row) ==
  IsCurrentUser(row.requesterId, p)
book_loans_update_cancel_using(p, row) ==
  IsCurrentUser(row.requesterId, p) /\ row.status = "pending"
book_loans_update_cancel_check(p, row) == row.status = "cancelled"
book_loans_update_owner_deny_using(p, row) ==
  IsCurrentUser(row.ownerId, p) /\ row.status = "pending"
book_loans_update_owner_deny_check(p, row) == row.status = "denied"
book_loans_update_owner_approve_using(p, row) ==
  IsCurrentUser(row.ownerId, p) /\ row.status = "pending"
\* Variant: approval tests the book's flags again.
book_loans_update_owner_approve_check_available(p, row) ==
  row.status = "loaned" /\ OwnedAndAvailable(row)
book_loans_update_owner_approve_check(p, row) == row.status = "loaned"
book_loans_update_owner_confirm_return_using(p, row) ==
  IsCurrentUser(row.ownerId, p) /\ row.status = "loaned"
book_loans_update_owner_confirm_return_check(p, row) == row.status = "returned"


\* ------------------------------------------------------------------------
\* Per table and command: the permissive policies combined with OR, the
\* USING side and the WITH CHECK side each on its own. A command for which
\* a table has no policy is listed in NoPolicy below.
\* ------------------------------------------------------------------------
UsersSelectUsing(p, row) == users_select_all(p, row)
UsersUpdateUsing(p, row) == users_update_own(p, row)
UsersUpdateCheck(p, row) == users_update_own(p, row)

SessionsSelectUsing(p, row) == sessions_select_own(p, row)
SessionsDeleteUsing(p, row) == sessions_delete_own(p, row)

ContactsSelectUsing(p, row) == contacts_select_own(p, row)
ContactsInsertCheck(p, row) == contacts_insert_own(p, row)
ContactsUpdateUsing(p, row) == contacts_update_own_using(p, row)
ContactsUpdateCheck(p, row) == contacts_update_own_check(p, row)
ContactsDeleteUsing(p, row) == contacts_delete_own(p, row)

GroupsSelectUsing(p, row) == groups_select_member(p, row)
GroupsInsertCheck(p, row) == groups_insert_own(p, row)
GroupsUpdateUsing(p, row) == groups_update_creator(p, row)
GroupsUpdateCheck(p, row) == groups_update_creator(p, row)
GroupsDeleteUsing(p, row) == groups_delete_creator(p, row)

UserGroupsSelectUsing(p, row) == user_groups_select_member(p, row)
UserGroupsInsertCheck(p, row) == user_groups_insert_creator(p, row)
UserGroupsDeleteUsing(p, row) ==
  user_groups_delete_self(p, row) \/ user_groups_delete_creator(p, row)

BooksSelectUsing(p, row) ==
  books_select_own(p, row) \/ books_select_shared_tags(p, row)
BooksInsertCheck(p, row) == books_insert_own(p, row)
\* Variant: a book that the principal may select may be updated.
BooksUpdateUsing_visible(p, row) ==
  books_select_own(p, row) \/ books_select_shared_tags(p, row)
BooksUpdateUsing(p, row) == books_update_own(p, row)
BooksUpdateCheck(p, row) == books_update_own(p, row)
BooksDeleteUsing(p, row) == books_delete_own(p, row)

TagsSelectUsing(p, row) == tags_select_own(p, row) \/ tags_select_shared(p, row)
TagsInsertCheck(p, row) == tags_insert_own(p, row)
TagsUpdateUsing(p, row) == tags_update_own(p, row)
TagsUpdateCheck(p, row) == tags_update_own(p, row)
TagsDeleteUsing(p, row) == tags_delete_own(p, row)

BookTagsSelectUsing(p, row) ==
  book_tags_select_own_books(p, row) \/ book_tags_select_group_books(p, row)
\* Variant: only book_tags_insert_own_books is installed.
BookTagsInsertCheck_own_only(p, row) == book_tags_insert_own_books(p, row)
BookTagsInsertCheck(p, row) ==
  book_tags_insert_own_books(p, row) \/ book_tags_insert_group_books(p, row)
BookTagsDeleteUsing(p, row) == book_tags_delete_own(p, row)

SharedTagsSelectUsing(p, row) == shared_tags_select_member(p, row)
SharedTagsInsertCheck(p, row) == shared_tags_insert_own(p, row)
SharedTagsDeleteUsing(p, row) == shared_tags_delete_own(p, row)

BookLoansSelectUsing(p, row) ==
  book_loans_select_requester(p, row) \/ book_loans_select_owner(p, row)
BookLoansInsertCheck(p, row) == book_loans_insert_request(p, row)
BookLoansUpdateUsing(p, row) ==
  \/ book_loans_update_cancel_using(p, row)
  \/ book_loans_update_owner_deny_using(p, row)
  \/ book_loans_update_owner_approve_using(p, row)
  \/ book_loans_update_owner_confirm_return_using(p, row)
BookLoansUpdateCheck(p, row) ==
  \/ book_loans_update_cancel_check(p, row)
  \/ book_loans_update_owner_deny_check(p, row)
  \/ book_loans_update_owner_approve_check(p, row)
  \/ book_loans_update_owner_confirm_return_check(p, row)

\* What a SELECT * FROM books returns to principal p
SelectBooks(p) == {r \in books : BooksSelectUsing(p, r)}

\* ------------------------------------------------------------------------
\* Statement outcomes. An INSERT whose new row fails WITH CHECK, and an
\* UPDATE whose new row fails WITH CHECK, raise an error; an UPDATE or
\* DELETE whose target row fails USING touches no row and raises nothing;
\* a key that already exists is a constraint violation.
\* ------------------------------------------------------------------------
InsertResult(check, duplicate) ==
  IF ~check THEN "error" ELSE IF duplicate THEN "conflict" ELSE "ok"
\* Variant: WITH CHECK is not applied to the new row.
UpdateResult_check_ignored(using, check) == IF ~using THEN "norows" ELSE "ok"
UpdateResult(using, check) ==
  IF ~using THEN "norows" ELSE IF ~check THEN "error" ELSE "ok"
DeleteResult(using) == IF using THEN "ok" ELSE "norows"

\* The record of a statement: the row is kept when a write went through.
NoRow == [none |-> TRUE]
Stmt(table, cmd, p, res, row) ==
  [table |-> table, cmd |-> cmd, p |-> p, res |-> res,
   row |-> IF res = "ok" THEN row ELSE NoRow]

\* ------------------------------------------------------------------------
\* Statements. Each runs as principal p (the app.user_id that withUser set
\* for the transaction, or Anon when none is set) and is one atomic step.
\* ------------------------------------------------------------------------
TableNames == {"users", "sessions", "contacts", "groups", "user_groups", "books",
               "tags", "book_tags", "shared_tags_to_groups", "book_loans"}

SelectRows(t, p) ==
  CASE t = "users" -> {r \in users : UsersSelectUsing(p, r)}
    [] t = "sessions" -> {r \in sessions : SessionsSelectUsing(p, r)}
    [] t = "contacts" -> {r \in contacts : ContactsSelectUsing(p, r)}
    [] t = "groups" -> {r \in groups : GroupsSelectUsing(p, r)}
    [] t = "user_groups" -> {r \in userGroups : UserGroupsSelectUsing(p, r)}
    [] t = "books" -> SelectBooks(p)
    [] t = "tags" -> {r \in tags : TagsSelectUsing(p, r)}
    [] t = "book_tags" -> {r \in bookTags : BookTagsSelectUsing(p, r)}
    [] t = "shared_tags_to_groups" -> {r \in sharedTags : SharedTagsSelectUsing(p, r)}
    [] t = "book_loans" -> {r \in bookLoans : BookLoansSelectUsing(p, r)}

\* tx.select().from(t): rows the principal may not read are left out, and
\* that is no error.
SelectStmt(p, t) ==
  /\ last' = Stmt(t, "select", p, IF SelectRows(t, p) = {} THEN "empty" ELSE "rows", NoRow)
  /\ UNCHANGED <<tables, txs, web>>

\* Commands for which a table has no policy: with row security enabled
\* nothing is granted.
NoPolicy == {<<"users", "insert">>, <<"users", "delete">>,
             <<"sessions", "insert">>, <<"sessions", "update">>,
             <<"user_groups", "update">>, <<"book_tags", "update">>,
             <<"shared_tags_to_groups", "update">>, <<"book_loans", "delete">>}

NoPolicyStmt(p, tc) ==
  /\ tc \in NoPolicy
  /\ last' = Stmt(tc[1], tc[2], p, IF tc[2] = "insert" THEN "error" ELSE "norows", NoRow)
  /\ UNCHANGED <<tables, txs, web>>

UpdateUser(p, row) ==
  /\ row \in users
  /\ last' = Stmt("users", "update", p,
                  UpdateResult(UsersUpdateUsing(p, row), UsersUpdateCheck(p, row)), row)
  /\ UNCHANGED <<tables, txs, web>>

DeleteSession(p, row) ==
  LET res == DeleteResult(SessionsDeleteUsing(p, row))
  IN /\ row \in sessions
     /\ sessions' = IF res = "ok" THEN sessions \ {row} ELSE sessions
     /\ last' = Stmt("sessions", "delete", p, res, row)
     /\ UNCHANGED <<contacts, groups, userGroups, books, tags, bookTags,
                    sharedTags, bookLoans, txs, web>>

\* primaryKey (userId, contactId)
ContactKeyTaken(row, table) ==
  \E c \in table : c.userId = row.userId /\ c.contactId = row.contactId

InsertContact(p, row) ==
  LET res == InsertResult(ContactsInsertCheck(p, row), ContactKeyTaken(row, contacts))
  IN /\ contacts' = IF res = "ok" THEN contacts \cup {row} ELSE contacts
     /\ last' = Stmt("contacts", "insert", p, res, row)
     /\ UNCHANGED <<groups, userGroups, books, tags, bookTags, sharedTags,
                    bookLoans, sessions, txs, web>>

UpdateContact(p, row, new) ==
  LET rls == UpdateResult(ContactsUpdateUsing(p, row), ContactsUpdateCheck(p, new))
      res == IF rls = "ok" /\ ContactKeyTaken(new, contacts \ {row})
             THEN "conflict" ELSE rls
  IN /\ row \in contacts
     /\ contacts' = IF res = "ok" THEN (contacts \ {row}) \cup {new} ELSE contacts
     /\ last' = Stmt("contacts", "update", p, res, new)
     /\ UNCHANGED <<groups, userGroups, books, tags, bookTags, sharedTags,
                    bookLoans, sessions, txs, web>>

DeleteContact(p, row) ==
  LET res == DeleteResult(ContactsDeleteUsing(p, row))
  IN /\ row \in contacts
     /\ contacts' = IF res = "ok" THEN contacts \ {row} ELSE contacts
     /\ last' = Stmt("contacts", "delete", p, res, row)
     /\ UNCHANGED <<groups, userGroups, books, tags, bookTags, sharedTags,
                    bookLoans, sessions, txs, web>>

IdTaken(row, table) == \E r \in table : r.id = row.id

InsertGroup(p, row) ==
  LET res == InsertResult(GroupsInsertCheck(p, row), IdTaken(row, groups))
  IN /\ groups' = IF res = "ok" THEN groups \cup {row} ELSE groups
     /\ last' = Stmt("groups", "insert", p, res, row)
     /\ UNCHANGED <<contacts, userGroups, books, tags, bookTags, sharedTags,
                    bookLoans, sessions, txs, web>>

UpdateGroup(p, row, new) ==
  LET res == UpdateResult(GroupsUpdateUsing(p, row), GroupsUpdateCheck(p, new))
  IN /\ row \in groups
     /\ new.id = row.id
     /\ groups' = IF res = "ok" THEN (groups \ {row}) \cup {new} ELSE groups
     /\ last' = Stmt("groups", "update", p, res, new)
     /\ UNCHANGED <<contacts, userGroups, books, tags, bookTags, sharedTags,
                    bookLoans, sessions, txs, web>>

\* user_groups and shared_tags_to_groups reference groups ON DELETE cascade
DeleteGroup(p, row) ==
  LET res == DeleteResult(GroupsDeleteUsing(p, row))
  IN /\ row \in groups
     /\ groups' = IF res = "ok" THEN groups \ {row} ELSE groups
     /\ userGroups' = IF res = "ok"
                      THEN {ug \in userGroups : ug.groupId # row.id} ELSE userGroups
     /\ sharedTags' = IF res = "ok"
                      THEN {st \in sharedTags : st.groupId # row.id} ELSE sharedTags
     /\ last' = Stmt("groups", "delete", p, res, row)
     /\ UNCHANGED <<contacts, books, tags, bookTags, bookLoans, sessions, txs, web>>

InsertUserGroup(p, row) ==
  LET res == InsertResult(UserGroupsInsertCheck(p, row), row \in userGroups)
  IN /\ userGroups' = IF res = "ok" THEN userGroups \cup {row} ELSE userGroups
     /\ last' = Stmt("user_groups", "insert", p, res, row)
     /\ UNCHANGED <<contacts, groups, books, tags, bookTags, sharedTags,
                    bookLoans, sessions, txs, web>>

DeleteUserGroup(p, row) ==
  LET res == DeleteResult(UserGroupsDeleteUsing(p, row))
  IN /\ row \in userGroups
     /\ userGroups' = IF res = "ok" THEN userGroups \ {row} ELSE userGroups
     /\ last' = Stmt("user_groups", "delete", p, res, row)
     /\ UNCHANGED <<contacts, groups, books, tags, bookTags, sharedTags,
                    bookLoans, sessions, txs, web>>

InsertBook(p, row) ==
  LET res == InsertResult(BooksInsertCheck(p, row), IdTaken(row, books))
  IN /\ books' = IF res = "ok" THEN books \cup {row} ELSE books
     /\ last' = Stmt("books", "insert", p, res, row)
     /\ UNCHANGED <<contacts, groups, userGroups, tags, bookTags, sharedTags,
                    bookLoans, sessions, txs, web>>

\* UPDATE books SET ... WHERE id = row.id; new is the row after SET.
UpdateBook(p, row, new) ==
  LET res == UpdateResult(BooksUpdateUsing(p, row), BooksUpdateCheck(p, new))
  IN /\ row \in books
     /\ new.id = row.id
     /\ books' = IF res = "ok" THEN (books \ {row}) \cup {new} ELSE books
     /\ last' = Stmt("books", "update", p, res, new)
     /\ UNCHANGED <<contacts, groups, userGroups, tags, bookTags, sharedTags,
                    bookLoans, sessions, txs, web>>

\* book_tags and book_loans reference books ON DELETE cascade
DeleteBook(p, row) ==
  LET res == DeleteResult(BooksDeleteUsing(p, row))
  IN /\ row \in books
     /\ books' = IF res = "ok" THEN books \ {row} ELSE books
     /\ bookTags' = IF res = "ok"
                    THEN {bt \in bookTags : bt.bookId # row.id} ELSE bookTags
     /\ bookLoans' = IF res = "ok"
                     THEN {l \in bookLoans : l.bookId # row.id} ELSE bookLoans
     /\ last' = Stmt("books", "delete", p, res, row)
     /\ UNCHANGED <<contacts, groups, userGroups, tags, sharedTags, sessions, txs, web>>

InsertTag(p, row) ==
  LET res == InsertResult(TagsInsertCheck(p, row), IdTaken(row, tags))
  IN /\ tags' = IF res = "ok" THEN tags \cup {row} ELSE tags
     /\ last' = Stmt("tags", "insert", p, res, row)
     /\ UNCHANGED <<contacts, groups, userGroups, books, bookTags, sharedTags,
                    bookLoans, sessions, txs, web>>

UpdateTag(p, row, new) ==
  LET res == UpdateResult(TagsUpdateUsing(p, row), TagsUpdateCheck(p, new))
  IN /\ row \in tags
     /\ new.id = row.id
     /\ tags' = IF res = "ok" THEN (tags \ {row}) \cup {new} ELSE tags
     /\ last' = Stmt("tags", "update", p, res, new)
     /\ UNCHANGED <<contacts, groups, userGroups, books, bookTags, sharedTags,
                    bookLoans, sessions, txs, web>>

\* book_tags and shared_tags_to_groups reference tags ON DELETE cascade
DeleteTag(p, row) ==
  LET res == DeleteResult(TagsDeleteUsing(p, row))
  IN /\ row \in tags
     /\ tags' = IF res = "ok" THEN tags \ {row} ELSE tags
     /\ bookTags' = IF res = "ok"
                    THEN {bt \in bookTags : bt.tagId # row.id} ELSE bookTags
     /\ sharedTags' = IF res = "ok"
                      THEN {st \in sharedTags : st.tagId # row.id} ELSE sharedTags
     /\ last' = Stmt("tags", "delete", p, res, row)
     /\ UNCHANGED <<contacts, groups, userGroups, books, bookLoans, sessions, txs, web>>

\* unique (bookId, tagId, taggedById); bookId and tagId are foreign keys
BookTagRejected(row) ==
  \/ row \in bookTags
  \/ ~(\E b \in books : b.id = row.bookId)
  \/ ~(\E t \in tags : t.id = row.tagId)

InsertBookTag(p, row) ==
  LET res == InsertResult(BookTagsInsertCheck(p, row), BookTagRejected(row))
  IN /\ bookTags' = IF res = "ok" THEN bookTags \cup {row} ELSE bookTags
     /\ last' = Stmt("book_tags", "insert", p, res, row)
     /\ UNCHANGED <<contacts, groups, userGroups, books, tags, sharedTags,
                    bookLoans, sessions, txs, web>>

DeleteBookTag(p, row) ==
  LET res == DeleteResult(BookTagsDeleteUsing(p, row))
  IN /\ row \in bookTags
     /\ bookTags' = IF res = "ok" THEN bookTags \ {row} ELSE bookTags
     /\ last' = Stmt("book_tags", "delete", p, res, row)
     /\ UNCHANGED <<contacts, groups, userGroups, books, tags, sharedTags,
                    bookLoans, sessions, txs, web>>

\* primaryKey (tagId, groupId); tagId and groupId are foreign keys
SharedTagRejected(row) ==
  \/ \E s \in sharedTags : s.tagId = row.tagId /\ s.groupId = row.groupId
  \/ ~(\E t \in tags : t.id = row.tagId)
  \/ ~(\E g \in groups : g.id = row.groupId)

InsertSharedTag(p, row) ==
  LET res == InsertResult(SharedTagsInsertCheck(p, row), SharedTagRejected(row))
  IN /\ sharedTags' = IF res = "ok" THEN sharedTags \cup {row} ELSE sharedTags
     /\ last' = Stmt("shared_tags_to_groups", "insert", p, res, row)
     /\ UNCHANGED <<contacts, groups, userGroups, books, tags, bookTags,
                    bookLoans, sessions, txs, web>>

DeleteSharedTag(p, row) ==
  LET res == DeleteResult(SharedTagsDeleteUsing(p, row))
  IN /\ row \in sharedTags
     /\ sharedTags' = IF res = "ok" THEN sharedTags \ {row} ELSE sharedTags
     /\ last' = Stmt("shared_tags_to_groups", "delete", p, res, row)
     /\ UNCHANGED <<contacts, groups, userGroups, books, tags, bookTags,
                    bookLoans, sessions, txs, web>>

\* bookId is a foreign key; id is the primary key
BookLoanRejected(row) ==
  \/ IdTaken(row, bookLoans)
  \/ ~(\E b \in books : b.id = row.bookId)

InsertBookLoan(p, row) ==
  LET res == InsertResult(BookLoansInsertCheck(p, row), BookLoanRejected(row))
  IN /\ bookLoans' = IF res = "ok" THEN bookLoans \cup {row} ELSE bookLoans
     /\ last' = Stmt("book_loans", "insert", p, res, row)
     /\ UNCHANGED <<contacts, groups, userGroups, books, tags, bookTags,
                    sharedTags, sessions, txs, web>>

\* tx.update(bookLoans).set(...).where(eq(bookLoans.id, row.id))
UpdateBookLoan(p, row, new) ==
  LET res == UpdateResult(BookLoansUpdateUsing(p, row), BookLoansUpdateCheck(p, new))
  IN /\ row \in bookLoans
     /\ new.id = row.id
     /\ bookLoans' = IF res = "ok" THEN (bookLoans \ {row}) \cup {new} ELSE bookLoans
     /\ last' = Stmt("book_loans", "update", p, res, new)
     /\ UNCHANGED <<contacts, groups, userGroups, books, tags, bookTags,
                    sharedTags, sessions, txs, web>>

\* ------------------------------------------------------------------------
\* Rows a caller may propose
\* ------------------------------------------------------------------------
UserGroupRows == [userId : Users, groupId : GroupIds]
BookTagRows == [bookId : BookIds, tagId : TagIds, taggedById : Users]
SharedTagRows == [tagId : TagIds, groupId : GroupIds, sharedById : Users]
BookRows == [id : BookIds, ownerId : Users, isOwned : BOOLEAN,
             availableForLoan : BOOLEAN]

GroupRows == [id : GroupIds, createdById : Users]
TagRows == [id : TagIds, createdById : Users]
ContactRows == [userId : Users, contactId : Users, status : contactStatusEnum]
LoanRows == [id : LoanIds, bookId : BookIds, requesterId : Users, ownerId : Users,
             status : loanStatusEnum]
\* id: uuid primary key, defaultRandom(): a key not yet in the table
NextLoanId == Cardinality(bookLoans) + 1

Txs == {"T1", "T2"}
IdleTx == [pc |-> "idle", p |-> Anon, loan |-> 0, set |-> "none", waited |-> FALSE,
           seen |-> "none", guc |-> Anon, evalAs |-> "none"]

\* ------------------------------------------------------------------------
\* The catalogue after registration: each group, book and tag was inserted
\* by its creator (groups_insert_own, books_insert_own, tags_insert_own).
\* ------------------------------------------------------------------------
Catalogue ==
  /\ groups = {[id |-> "g1", createdById |-> "u1"], [id |-> "g2", createdById |-> "u2"]}
  /\ books = {[id |-> "b1", ownerId |-> "u1", isOwned |-> TRUE, availableForLoan |-> TRUE],
              [id |-> "b2", ownerId |-> "u2", isOwned |-> TRUE, availableForLoan |-> TRUE]}
  /\ tags = {[id |-> "t1", createdById |-> "u1"], [id |-> "t2", createdById |-> "u2"]}
  /\ sessions = {[id |-> "s1", userId |-> "u1", expiresAt |-> SESSION_EXPIRY_DAYS]}
  /\ web = [forced |-> TRUE, now |-> 0]
  /\ txs = [t \in Txs |-> IdleTx]
  /\ last = Stmt("none", "none", Anon, "none", NoRow)

\* ------------------------------------------------------------------------
\* Spec: sharing. Memberships, book tags and tag shares are inserted and
\* deleted by any principal; books are selected.
\* ------------------------------------------------------------------------
Init ==
  /\ Catalogue
  /\ contacts = {}
  /\ userGroups = {}
  /\ bookTags = {}
  /\ sharedTags = {}
  /\ bookLoans = {}

RoomForRow ==
  Cardinality(userGroups) + Cardinality(bookTags) + Cardinality(sharedTags) < MaxRows

Next ==
  \/ \E p \in Principals : SelectStmt(p, "books")
  \/ \E p \in Principals, row \in UserGroupRows : RoomForRow /\ InsertUserGroup(p, row)
  \/ \E p \in Principals, row \in userGroups : DeleteUserGroup(p, row)
  \/ \E p \in Principals, row \in {r \in BookTagRows : r.bookId = "b1"} :
        RoomForRow /\ InsertBookTag(p, row)
  \/ \E p \in Principals, row \in bookTags : DeleteBookTag(p, row)
  \/ \E p \in Principals, row \in SharedTagRows : RoomForRow /\ InsertSharedTag(p, row)
  \/ \E p \in Principals, row \in sharedTags : DeleteSharedTag(p, row)

Spec == Init /\ [][Next]_vars

\* ------------------------------------------------------------------------
\* Claims checked under Spec
\* ------------------------------------------------------------------------
\* Book b has a book tag whose tag is shared into a group of which u is a member.
SharedTagPath(u, b) ==
  \E bt \in bookTags, st \in sharedTags, ug \in userGroups :
    /\ bt.bookId = b.id
    /\ st.tagId = bt.tagId
    /\ ug.groupId = st.groupId
    /\ ug.userId = u

\* C1: in every reachable state, a select on books by user U returns book B
\* exactly when U owns B or B has a book tag whose tag is shared into a group
\* of which U is a member; the last books select returned rows exactly when
\* such a book exists.
C1_BookVisibility ==
  /\ \A u \in Users, b \in books :
       (b \in SelectBooks(u)) <=> (b.ownerId = u \/ SharedTagPath(u, b))
  /\ (last.table = "books" /\ last.cmd = "select" /\ last.p \in Users) =>
       ((last.res = "rows") <=>
          \E b \in books : b.ownerId = last.p \/ SharedTagPath(last.p, b))

\* u3, who owns no book, has selected books and got a row through a shared tag.
C1_Witness ==
  /\ last = Stmt("books", "select", "u3", "rows", NoRow)
  /\ \E b \in SelectBooks("u3") : b.ownerId # "u3" /\ SharedTagPath("u3", b)

\* Every shared-tag path from book b to user u goes through group g.
OnlyVia(u, b, g) ==
  \A bt \in bookTags, st \in sharedTags, ug \in userGroups :
    (bt.bookId = b.id /\ st.tagId = bt.tagId /\ ug.groupId = st.groupId
       /\ ug.userId = u) => st.groupId = g

\* C4: a step that deletes the membership of U in G, where book B (not owned
\* by U) was returned to U only through tags shared into G, leads to a state
\* in which a select by U does not return B.
C4_RevocationImmediate ==
  [][\A ug \in userGroups, b \in books :
       (/\ ug \notin userGroups'
        /\ b.ownerId # ug.userId
        /\ b \in SelectBooks(ug.userId)
        /\ OnlyVia(ug.userId, b, ug.groupId))
       => b \notin SelectBooks(ug.userId)']_vars

\* u1, creator of g1, has just deleted a membership; b1 is still tagged with a
\* tag shared into g1, u2 is no member of g1 and no longer gets b1.
C4_Witness ==
  /\ last = Stmt("user_groups", "delete", "u1", "ok",
                  [userId |-> "u2", groupId |-> "g1"])
  /\ \E bt \in bookTags, st \in sharedTags :
        bt.bookId = "b1" /\ st.tagId = bt.tagId /\ st.groupId = "g1"
  /\ \A b \in SelectBooks("u2") : b.id # "b1"

\* The owner of the row's book is a member of a group of which p is a member.
OwnerSharesGroup(p, row) ==
  \E b \in books, m1 \in userGroups, m2 \in userGroups :
    /\ b.id = row.bookId
    /\ m1.userId = p
    /\ m2.userId = b.ownerId
    /\ m1.groupId = m2.groupId

OwnsBook(p, row) == \E b \in books : b.id = row.bookId /\ b.ownerId = p

C10_NonOwnerTagRejected ==
  \A bt \in bookTags : \E b \in books : b.id = bt.bookId /\ b.ownerId = bt.taggedById

\* C11: every shared-tag row (tag T, group G, sharedBy S) has S the creator of
\* T and S a member of G.
C11_SharedTagInvariant ==
  \A st \in sharedTags :
    /\ \E t \in tags : t.id = st.tagId /\ t.createdById = st.sharedById
    /\ \E ug \in userGroups : ug.userId = st.sharedById /\ ug.groupId = st.groupId

\* ------------------------------------------------------------------------
\* SpecBooks: the shared group of the test data (both users in the group,
\* u1's book tagged with a tag shared into it); any principal updates and
\* deletes books, memberships come and go.
\* ------------------------------------------------------------------------
SharedGroupFixture ==
  /\ userGroups = {[userId |-> "u1", groupId |-> "g1"],
                   [userId |-> "u2", groupId |-> "g1"]}
  /\ bookTags = {[bookId |-> "b1", tagId |-> "t1", taggedById |-> "u1"]}
  /\ sharedTags = {[tagId |-> "t1", groupId |-> "g1", sharedById |-> "u1"]}

InitBooks ==
  /\ Catalogue
  /\ SharedGroupFixture
  /\ contacts = {}
  /\ bookLoans = {}

NextBooks ==
  \/ \E p \in Principals : SelectStmt(p, "books")
  \/ \E p \in Principals, row \in books, new \in BookRows : UpdateBook(p, row, new)
  \/ \E p \in Principals, row \in books : DeleteBook(p, row)
  \/ \E p \in Principals, row \in UserGroupRows : RoomForRow /\ InsertUserGroup(p, row)
  \/ \E p \in Principals, row \in userGroups : DeleteUserGroup(p, row)

SpecBooks == InitBooks /\ [][NextBooks]_vars

\* C8: a step that changes or removes a book row is a statement of the row's
\* owner, whether or not the book is returned by the selects of others; and
\* in every state the update and the delete of a book pass row security for
\* its owner only.
C8_SharedIsReadOnly ==
  [][/\ \A b \in books : b \notin books' => last'.p = b.ownerId
     /\ \A p \in Principals, b \in books :
          /\ BooksUpdateUsing(p, b) <=> p = b.ownerId
          /\ BooksDeleteUsing(p, b) <=> p = b.ownerId]_vars

\* u2 owns none of the books left, gets each of them from a select through a
\* shared tag, and the update u2 just issued touched no row.
C8_Witness ==
  /\ last = Stmt("books", "update", "u2", "norows", NoRow)
  /\ books # {}
  /\ \A b \in books : b.ownerId # "u2" /\ SharedTagPath("u2", b) /\ b \in SelectBooks("u2")

\* ------------------------------------------------------------------------
\* SpecLoanRequest: contacts between u1 and u2 are made, answered and
\* removed, memberships of g1 and the share of t1 come and go, u1 changes
\* the flags of b1, and any principal requests a loan of b1.
\* ------------------------------------------------------------------------
InitLoanRequest ==
  /\ Catalogue
  /\ userGroups = {[userId |-> "u1", groupId |-> "g1"]}
  /\ bookTags = {[bookId |-> "b1", tagId |-> "t1", taggedById |-> "u1"]}
  /\ sharedTags = {[tagId |-> "t1", groupId |-> "g1", sharedById |-> "u1"]}
  /\ contacts = {}
  /\ bookLoans = {}

ContactProposals ==
  {r \in ContactRows :
     \/ r.userId = "u2" /\ r.contactId = "u1"
     \/ r.userId = "u1" /\ r.contactId = "u2" /\ r.status = "accepted"}

NextLoanRequest ==
  \/ \E p \in Principals, row \in ContactProposals : InsertContact(p, row)
  \/ \E p \in Principals, row \in contacts, st \in contactStatusEnum :
        UpdateContact(p, row, [row EXCEPT !.status = st])
  \/ \E p \in Principals, row \in contacts : DeleteContact(p, row)
  \/ \E p \in Principals, row \in {r \in UserGroupRows : r.groupId = "g1" /\ r.userId # "u3"} :
        InsertUserGroup(p, row)
  \/ \E p \in Principals, row \in userGroups : DeleteUserGroup(p, row)
  \/ \E p \in Principals, row \in {r \in SharedTagRows : r.tagId = "t1" /\ r.groupId = "g1"} :
        InsertSharedTag(p, row)
  \/ \E p \in Principals, row \in sharedTags : DeleteSharedTag(p, row)
  \/ \E p \in Principals, row \in {r \in books : r.id = "b1"}, o \in BOOLEAN, a \in BOOLEAN :
        UpdateBook(p, row, [row EXCEPT !.isOwned = o, !.availableForLoan = a])
  \/ \E p \in Principals, row \in {r \in LoanRows : r.id = NextLoanId /\ r.bookId = "b1"
                                   /\ r.status \in {"pending", "loaned"}} :
        Cardinality(bookLoans) < MaxLoans /\ InsertBookLoan(p, row)

SpecLoanRequest == InitLoanRequest /\ [][NextLoanRequest]_vars

\* An accepted contact row joins p and o, in either direction.
ContactAccepted(p, o) ==
  \E c \in contacts :
    c.status = "accepted" /\ {c.userId, c.contactId} = {p, o} /\ p # o

\* The book has a book tag whose tag is shared into a group of which both p
\* and o are members.
SharedIntoCommonGroup(p, o, bookId) ==
  \E bt \in bookTags, st \in sharedTags, m1 \in userGroups, m2 \in userGroups :
    /\ bt.bookId = bookId /\ st.tagId = bt.tagId
    /\ m1.userId = p /\ m1.groupId = st.groupId
    /\ m2.userId = o /\ m2.groupId = st.groupId

LoanRequestRule(p, row) ==
  /\ p \in Users
  /\ row.requesterId = p
  /\ row.ownerId # p
  /\ row.status = "pending"
  /\ ContactAccepted(p, row.ownerId)
  /\ SharedIntoCommonGroup(p, row.ownerId, row.bookId)
  /\ \E b \in books : b.id = row.bookId /\ b.isOwned /\ b.availableForLoan

\* C3: a loan insert by principal P passes row security exactly when
\* requester = P, owner # P, status = pending, an accepted contact row joins
\* P and the owner in either direction, the book has a book tag whose tag is
\* shared into a group of both, and the book is owned and available; a loan
\* insert that went through satisfied all of these, and one by a principal
\* with no accepted contact and no group raised an error.
C3_LoanRequestRule ==
  /\ \A p \in Principals, row \in {r \in LoanRows : r.id = 1} :
       BookLoansInsertCheck(p, row) <=> LoanRequestRule(p, row)
  /\ (last.table = "book_loans" /\ last.cmd = "insert") =>
       /\ last.res = "ok" => LoanRequestRule(last.p, last.row)
       /\ (MyGroups(last.p) = {} /\ \A c \in contacts :
              c.status = "accepted" => last.p \notin {c.userId, c.contactId})
            => last.res = "error"

\* u2, an accepted contact of u1 and a member of g1 with u1, has just
\* requested b1 of u1 and the pending loan is in the table.
C3_Witness ==
  /\ last.table = "book_loans" /\ last.cmd = "insert" /\ last.res = "ok"
  /\ last.p = "u2" /\ last.row.ownerId = "u1" /\ last.row.bookId = "b1"
  /\ last.row \in bookLoans

\* ------------------------------------------------------------------------
\* SpecLoans: u2 is an accepted contact of u1 and a fellow member of g1,
\* into which the tag of b1 is shared. Any principal requests loans of b1,
\* sets the status of a loan and selects from any table; the unbound
\* principal issues every write on every table.
\* ------------------------------------------------------------------------
InitLoans ==
  /\ Catalogue
  /\ SharedGroupFixture
  /\ contacts = {[userId |-> "u2", contactId |-> "u1", status |-> "accepted"]}
  /\ bookLoans = {}

AnonymousWrite ==
  \/ \E tc \in NoPolicy : NoPolicyStmt(Anon, tc)
  \/ \E row \in users : UpdateUser(Anon, row)
  \/ \E row \in sessions : DeleteSession(Anon, row)
  \/ \E row \in ContactRows : InsertContact(Anon, row)
  \/ \E row \in contacts, st \in contactStatusEnum :
        UpdateContact(Anon, row, [row EXCEPT !.status = st])
  \/ \E row \in contacts : DeleteContact(Anon, row)
  \/ \E row \in GroupRows : InsertGroup(Anon, row)
  \/ \E row \in groups, new \in GroupRows : UpdateGroup(Anon, row, new)
  \/ \E row \in groups : DeleteGroup(Anon, row)
  \/ \E row \in UserGroupRows : InsertUserGroup(Anon, row)
  \/ \E row \in userGroups : DeleteUserGroup(Anon, row)
  \/ \E row \in BookRows : InsertBook(Anon, row)
  \/ \E row \in books, new \in BookRows : UpdateBook(Anon, row, new)
  \/ \E row \in books : DeleteBook(Anon, row)
  \/ \E row \in TagRows : InsertTag(Anon, row)
  \/ \E row \in tags, new \in TagRows : UpdateTag(Anon, row, new)
  \/ \E row \in tags : DeleteTag(Anon, row)
  \/ \E row \in BookTagRows : InsertBookTag(Anon, row)
  \/ \E row \in bookTags : DeleteBookTag(Anon, row)
  \/ \E row \in SharedTagRows : InsertSharedTag(Anon, row)
  \/ \E row \in sharedTags : DeleteSharedTag(Anon, row)

NextLoans ==
  \/ \E p \in Principals, t \in TableNames : SelectStmt(p, t)
  \/ \E p \in Principals, row \in {r \in LoanRows : r.id = NextLoanId /\ r.bookId = "b1"
                                   /\ r.status \in {"pending", "loaned"}} :
        Cardinality(bookLoans) < MaxLoans /\ InsertBookLoan(p, row)
  \/ \E p \in Principals, row \in bookLoans, st \in loanStatusEnum :
        UpdateBookLoan(p, row, [row EXCEPT !.status = st])
  \/ \E p \in Principals, row \in {b \in books : b.id = "b1"},
        new \in {n \in BookRows : n.ownerId = "u1"} : UpdateBook(p, row, new)
  \/ AnonymousWrite

SpecLoans == InitLoans /\ [][NextLoans]_vars

\* The four transitions of the loan state machine, with their actors.
InTransitionTable(loan, p, st) ==
  \/ loan.status = "pending" /\ p = loan.requesterId /\ st = "cancelled"
  \/ loan.status = "pending" /\ p = loan.ownerId /\ st = "denied"
  \/ loan.status = "pending" /\ p = loan.ownerId /\ st = "loaned"
  \/ loan.status = "loaned" /\ p = loan.ownerId /\ st = "returned"

\* C2: every loan update that goes through takes the loan from its current
\* status to the new one as one of the four transitions (pending, requester,
\* cancelled), (pending, owner, denied), (pending, owner, loaned), (loaned,
\* owner, returned), actor and from-state belonging to the same transition
\* as the target status.
C2_TransitionTable ==
  [][(last'.table = "book_loans" /\ last'.cmd = "update" /\ last'.res = "ok") =>
       \E l \in bookLoans :
         l.id = last'.row.id /\ InTransitionTable(l, last'.p, last'.row.status)]_vars

TerminalStatuses == {"cancelled", "denied", "returned"}

\* C6: a loan whose status is cancelled, denied or returned is left as it
\* is by every step, and an update of it by any principal to any status
\* matches no row (the table starts empty and the decision reads the loan
\* only, so it is taken whenever a step changes the table).
C6_TerminalStatuses ==
  [][/\ \A l \in bookLoans : l.status \in TerminalStatuses => l \in bookLoans'
     /\ bookLoans' # bookLoans =>
          \A l \in bookLoans' : l.status \in TerminalStatuses =>
            \A p \in Principals, st \in loanStatusEnum :
              UpdateResult(BookLoansUpdateUsing(p, l),
                           BookLoansUpdateCheck(p, [l EXCEPT !.status = st])) = "norows"]_vars

\* u1, owner of a loan, has just issued an update that matched no row, every
\* loan in the table being cancelled, denied or returned.
C6_Witness ==
  /\ last = Stmt("book_loans", "update", "u1", "norows", NoRow)
  /\ bookLoans # {}
  /\ \A l \in bookLoans : l.status \in TerminalStatuses /\ l.ownerId = "u1"

LoanById(id) == CHOOSE l \in bookLoans : l.id = id

\* Variant: SET instead of SET LOCAL, the setting outlives the transaction.
SetLocalEnds_session(tx) == tx
\* COMMIT or ROLLBACK discards what SET LOCAL set on the connection.
SetLocalEnds(tx) == [tx EXCEPT !.guc = Anon]

\* Variant: the callback's query runs on any connection of the pool on
\* which a principal is bound, not on the transaction's own.
Binding_pool(t) ==
  LET bound == {o \in Txs : txs[o].guc # Anon}
  IN IF bound = {} THEN Anon ELSE txs[CHOOSE o \in bound : TRUE].guc
\* current_setting('app.user_id', true) as seen by a query issued on tx, the
\* connection reserved for transaction t.
Binding(t) == txs[t].guc

\* db.transaction: BEGIN; SET LOCAL app.user_id = userId; the callback is
\* about to update loan id, setting its status to st.
Begin(t, p, id, st) ==
  /\ txs[t].pc = "idle"
  /\ \E l \in bookLoans : l.id = id
  /\ txs' = [txs EXCEPT ![t] = [pc |-> "begun", p |-> p, loan |-> id, set |-> st,
                                 waited |-> FALSE, seen |-> "none", guc |-> p,
                                 evalAs |-> "none"]]
  /\ UNCHANGED <<tables, last, web>>

\* tx.execute(SET LOCAL ...) raises: the transaction is rolled back and
\* withUser rejects before the callback runs.
BeginFails(t) ==
  /\ txs[t].pc = "idle"
  /\ txs' = [txs EXCEPT ![t].pc = "rejected"]
  /\ UNCHANGED <<tables, last, web>>

RowLocked(t) ==
  \E o \in Txs \ {t} : txs[o].pc = "locked" /\ txs[o].loan = txs[t].loan

\* The UPDATE finds the row locked by a transaction that has not committed
\* and waits for it.
WaitForRowLock(t) ==
  /\ txs[t].pc = "begun"
  /\ RowLocked(t)
  /\ txs' = [txs EXCEPT ![t].pc = "waiting", ![t].waited = TRUE,
                         ![t].seen = LoanById(txs[t].loan).status]
  /\ UNCHANGED <<tables, last, web>>

\* tx.update(bookLoans).set({status}).where(eq(bookLoans.id, id)).returning()
\* on the latest committed version of the row, at once or when the lock it
\* waited for is released, evaluated with the principal bound on the
\* connection: USING decides whether the row is matched, WITH CHECK whether
\* the new row is accepted. No row returned or an error makes the callback
\* throw and the transaction roll back.
ExecUpdate(t) ==
  LET row == LoanById(txs[t].loan)
      new == [row EXCEPT !.status = txs[t].set]
      res == UpdateResult(BookLoansUpdateUsing(Binding(t), row),
                          BookLoansUpdateCheck(Binding(t), new))
      ran == [txs[t] EXCEPT !.evalAs = Binding(t),
                            !.seen = IF txs[t].pc = "begun" THEN row.status
                                     ELSE txs[t].seen]
  IN /\ txs[t].pc \in {"begun", "waiting"}
     /\ ~RowLocked(t)
     /\ txs' = [txs EXCEPT ![t] = IF res = "ok"
                                   THEN [ran EXCEPT !.pc = "locked"]
                                   ELSE SetLocalEnds([ran EXCEPT !.pc = "rejected"])]
     /\ UNCHANGED <<tables, last, web>>

\* The callback returned: COMMIT makes the new row version the committed one.
Commit(t) ==
  LET row == LoanById(txs[t].loan)
  IN /\ txs[t].pc = "locked"
     /\ bookLoans' = (bookLoans \ {row}) \cup {[row EXCEPT !.status = txs[t].set]}
     /\ txs' = [txs EXCEPT ![t] = SetLocalEnds([txs[t] EXCEPT !.pc = "committed"])]
     /\ UNCHANGED <<contacts, groups, userGroups, books, tags, bookTags,
                    sharedTags, sessions, last, web>>

\* ------------------------------------------------------------------------
\* SpecRace: u2 has requested b1 of u1 twice; two transactions each set the
\* status of a pending loan.
\* ------------------------------------------------------------------------
InitRace ==
  /\ Catalogue
  /\ SharedGroupFixture
  /\ contacts = {[userId |-> "u2", contactId |-> "u1", status |-> "accepted"]}
  /\ bookLoans = {[id |-> i, bookId |-> "b1", requesterId |-> "u2",
                   ownerId |-> "u1", status |-> "pending"] : i \in {1, 2}}

NextRace ==
  \/ \E t \in Txs, p \in Users, l \in bookLoans, st \in loanStatusEnum :
        Begin(t, p, l.id, st)
  \/ \E t \in Txs : BeginFails(t)
  \/ \E t \in Txs : WaitForRowLock(t)
  \/ \E t \in Txs : ExecUpdate(t)
  \/ \E t \in Txs : Commit(t)

SpecRace == InitRace /\ [][NextRace]_vars

\* C7: of two transactions that set the status of the same pending loan at
\* the same time, one commits; the one that waited for it is evaluated
\* against the committed status and rejected, so it neither writes nor
\* commits.
C7_OneTransitionCommits ==
  \A t \in Txs :
    (txs[t].waited /\ txs[t].seen = "pending") =>
      txs[t].pc \notin {"locked", "committed"}

\* ------------------------------------------------------------------------
\* SpecGroups: group g2 is deleted and created again by any user,
\* memberships and shares of t1 come and go, tags are updated and deleted,
\* and any principal selects from groups and tags.
\* ------------------------------------------------------------------------
InitGroups ==
  /\ Catalogue
  /\ contacts = {}
  /\ userGroups = {}
  /\ bookTags = {}
  /\ sharedTags = {}
  /\ bookLoans = {}

NextGroups ==
  \/ \E p \in Principals, t \in {"groups", "tags"} : SelectStmt(p, t)
  \/ \E p \in Principals, row \in {r \in GroupRows : r.id = "g2"} : InsertGroup(p, row)
  \/ \E p \in Principals, row \in {r \in groups : r.id = "g2"} : DeleteGroup(p, row)
  \/ \E p \in Principals, row \in {r \in UserGroupRows : r.userId # "u2"} :
        RoomForRow /\ InsertUserGroup(p, row)
  \/ \E p \in Principals, row \in userGroups : DeleteUserGroup(p, row)
  \/ \E p \in Principals, row \in {r \in SharedTagRows : r.tagId = "t1"} :
        RoomForRow /\ InsertSharedTag(p, row)
  \/ \E p \in Principals, row \in sharedTags : DeleteSharedTag(p, row)
  \/ \E p \in Principals, row \in tags, new \in TagRows : UpdateTag(p, row, new)
  \/ \E p \in Principals, row \in tags : DeleteTag(p, row)

SpecGroups == InitGroups /\ [][NextGroups]_vars

\* C12: right after a user's group insert went through, the group is
\* returned by that user's select on groups and the user may share each of
\* their tags into it, with no user_groups row inserted.
C12_CreatorIsMember ==
  (last.table = "groups" /\ last.cmd = "insert" /\ last.res = "ok") =>
    /\ last.row \in SelectRows("groups", last.p)
    /\ \A t \in tags : t.createdById = last.p =>
         SharedTagsInsertCheck(last.p, [tagId |-> t.id, groupId |-> last.row.id,
                                        sharedById |-> last.p])

CreatorOf(groupId) == {g.createdById : g \in {x \in groups : x.id = groupId}}

\* C13: a membership insert passes row security exactly when the principal
\* created the row's group, and a membership delete exactly when the
\* principal is the row's user or created the row's group; a membership
\* insert or delete that went through was issued by such a principal.
C13_MembershipRule ==
  /\ \A p \in Principals, row \in UserGroupRows :
       UserGroupsInsertCheck(p, row) <=> p \in CreatorOf(row.groupId)
  /\ \A p \in Principals, row \in userGroups :
       UserGroupsDeleteUsing(p, row) <=>
         (p \in Users /\ (p = row.userId \/ p \in CreatorOf(row.groupId)))
  /\ (last.table = "user_groups" /\ last.res = "ok") =>
       \/ last.cmd = "insert" /\ last.p \in CreatorOf(last.row.groupId)
       \/ last.cmd = "delete" /\ last.p \in CreatorOf(last.row.groupId) \cup {last.row.userId}

\* u3 has created g2 anew and has just added u1 to it.
C13_Witness ==
  /\ last = Stmt("user_groups", "insert", "u3", "ok", [userId |-> "u1", groupId |-> "g2"])
  /\ [id |-> "g2", createdById |-> "u3"] \in groups

\* Tag t is shared into a group of which u is a member.
TagSharedWith(u, t) ==
  \E st \in sharedTags, ug \in userGroups :
    st.tagId = t.id /\ ug.groupId = st.groupId /\ ug.userId = u

\* C15: a select on tags by user U returns tag T exactly when U created T
\* or T is shared into a group of which U is a member; an update or delete
\* of T passes row security for its creator only, and every step that
\* changes or removes a tag row is a statement of its creator.
C15_TagVisibility ==
  [][/\ \A u \in Users, t \in tags :
          t \in SelectRows("tags", u) <=> (t.createdById = u \/ TagSharedWith(u, t))
     /\ \A p \in Principals, t \in tags :
          /\ TagsUpdateUsing(p, t) <=> p = t.createdById
          /\ TagsDeleteUsing(p, t) <=> p = t.createdById
     /\ \A t \in tags : t \notin tags' => last'.p = t.createdById]_vars

\* u3, who created no tag, has selected tags and got t1 through a share.
C15_Witness ==
  /\ last = Stmt("tags", "select", "u3", "rows", NoRow)
  /\ \A t \in tags : t.createdById # "u3"
  /\ \E t \in SelectRows("tags", "u3") : TagSharedWith("u3", t)

InFlight == {"begun", "waiting", "locked"}

\* C16: while a withUser transaction is in flight the principal bound on its
\* connection is its userId, the UPDATE of its callback is evaluated with
\* that userId, and once it has committed or rolled back (or before it
\* began) no principal is bound on the connection.
C16_BindingScoped ==
  \A t \in Txs :
    /\ txs[t].pc \in InFlight => Binding(t) = txs[t].p
    /\ txs[t].pc \notin InFlight => Binding(t) = Anon
    /\ txs[t].evalAs \in {"none", txs[t].p}

\* T1 = withUser(u1) committed and T2 = withUser(u2) rolled back after its
\* callback threw; no principal is bound on either connection.
C16_Witness ==
  /\ txs["T1"].pc = "committed" /\ txs["T1"].p = "u1" /\ txs["T1"].evalAs = "u1"
  /\ txs["T2"].pc = "rejected" /\ txs["T2"].p = "u2" /\ txs["T2"].evalAs = "u2"
  /\ Binding("T1") = Anon /\ Binding("T2") = Anon

\* C17: of two withUser transactions for different users, neither has its
\* UPDATE evaluated with the other's userId.
C17_NoCrossBinding ==
  \A t \in Txs, o \in Txs :
    (txs[t].p # txs[o].p /\ txs[t].evalAs # "none") => txs[t].evalAs # txs[o].p

\* withUser(u1) holds the row lock, withUser(u2) waited for it: both ran at
\* the same time and each UPDATE was evaluated with its own userId.
C17_Witness ==
  /\ txs["T1"].p = "u1" /\ txs["T1"].evalAs = "u1"
  /\ txs["T2"].p = "u2" /\ txs["T2"].waited /\ txs["T2"].evalAs = "u2"

\* C18: a statement run with no principal bound (on db, outside withUser)
\* ends with a PrincipalUnbound error; it is not evaluated as the anonymous
\* principal, with a result set, an empty result or a row-security outcome.
C18_UnboundAborts ==
  (last.p = Anon /\ last.cmd # "none") => last.res = "PrincipalUnbound"

Writes == {"insert", "update", "delete"}

\* C19 as stated: a write that row security denies ends with an error and
\* changes no row of any table; a select never ends with an error and
\* changes nothing.
C19_DeniedIsError ==
  [][/\ (last'.cmd \in Writes /\ last'.res \notin {"ok", "conflict"})
          => (last'.res = "error" /\ UNCHANGED tables)
     /\ last'.cmd = "select" => (last'.res \in {"rows", "empty"} /\ UNCHANGED tables)]_vars

\* C19, amended: a statement that does not end with "ok" changes no row of
\* any table. A denied insert raises an error; an update raises an error
\* only when the row it targets passes USING for the principal and the new
\* row fails WITH CHECK; an update or delete whose target fails USING ends
\* without error and without a row. A books update that went through was
\* issued by the owner of the row before and after; a books delete that
\* went through by its owner. A select ends with rows or empty.
C19_DenialOutcome ==
  [][/\ last'.res # "ok" => UNCHANGED tables
     /\ last'.cmd = "insert" => last'.res \in {"ok", "error", "conflict"}
     /\ last'.cmd = "delete" => last'.res \in {"ok", "norows"}
     /\ last'.cmd = "update" => last'.res \in {"ok", "error", "norows"}
     /\ (last'.table = "books" /\ last'.cmd = "update") =>
          /\ last'.res = "ok" =>
               /\ last'.row \in books' /\ last'.row.ownerId = last'.p
               /\ \E b \in books : b.id = last'.row.id /\ b.ownerId = last'.p
          /\ last'.res = "error" => \E b \in books : b.ownerId = last'.p
          /\ last'.res = "norows" => \E b \in books : b.ownerId # last'.p
     /\ (last'.table = "books" /\ last'.cmd = "delete") =>
          /\ last'.res = "ok" => (last'.row.ownerId = last'.p /\ last'.row \notin books')
          /\ last'.res = "norows" => \E b \in books : b.ownerId # last'.p
     /\ last'.cmd = "select" => (last'.res \in {"rows", "empty"} /\ UNCHANGED tables)]_vars

\* u2 is returned book b1 of u1 by a select and has just issued a delete of
\* it: the statement ended without error, without a row, and b1 is there.
C19_Witness ==
  /\ last = Stmt("books", "delete", "u2", "norows", NoRow)
  /\ \E b \in SelectBooks("u2") : b.id = "b1" /\ b.ownerId = "u1"
  /\ \A b \in books : b.ownerId # "u2"

FlagsSet(bookId) == \E b \in books : b.id = bookId /\ b.isOwned /\ b.availableForLoan

\* C20: a loan request is inserted only for a book whose isOwned and
\* availableForLoan flags are set at that moment; after that the flags play
\* no part: for every pending loan, whatever the flags of its book are now,
\* the owner's update to loaned goes through.
C20_FlagsAtInsertOnly ==
  [][/\ (last'.table = "book_loans" /\ last'.cmd = "insert" /\ last'.res = "ok")
          => FlagsSet(last'.row.bookId)
     /\ \A l \in bookLoans' :
          l.status = "pending" =>
            UpdateResult(BookLoansUpdateUsing(l.ownerId, l)',
                         BookLoansUpdateCheck(l.ownerId, [l EXCEPT !.status = "loaned"])')
              = "ok"]_vars

\* The owner u1 has just approved u2's request for b1, which by then was
\* marked not owned or not available for loan.
C20_Witness ==
  /\ last.table = "book_loans" /\ last.cmd = "update" /\ last.res = "ok" /\ last.p = "u1"
  /\ last.row.status = "loaned" /\ last.row.requesterId = "u2" /\ last.row.bookId = "b1"
  /\ ~FlagsSet("b1")
  /\ last.row \in bookLoans

\* The decisions of row security on books for principal p and row: may p
\* read it, may p write it (books_insert_own, books_update_own and
\* books_delete_own are one expression; the update stands for the three).
BooksDecision(p, row) == <<BooksSelectUsing(p, row), BooksUpdateUsing(p, row)>>

Tokens == {"s1", "s2"}

\* What a statement on db makes of the decision row security takes for the
\* absent principal: it counts when row security applies to db's role.
OnDb(decision) == web.forced => decision

\* createSession: token is the fresh random token; sessions has no INSERT
\* policy.
createSession(userId, token) ==
  LET row == [id |-> token, userId |-> userId,
              expiresAt |-> web.now + SESSION_EXPIRY_DAYS]
      res == InsertResult(OnDb(FALSE), FALSE)
  IN /\ \A r \in sessions : r.id # token
     /\ sessions' = IF res = "ok" THEN sessions \cup {row} ELSE sessions
     /\ last' = Stmt("sessions", "insert", Anon, res, row)
     /\ UNCHANGED <<contacts, groups, userGroups, books, tags, bookTags,
                    sharedTags, bookLoans, txs, web>>

\* db.delete(sessions).where(eq(sessions.id, token)): the rows left.
invalidateSession(rows, token) ==
  {r \in rows : ~(r.id = token /\ OnDb(SessionsDeleteUsing(Anon, r)))}

\* The user validateSession returns (Anon for null) and the rows it leaves.
\* Every session's user exists: sessions references users ON DELETE cascade
\* and users is not written.
validateSession(token) ==
  LET found == {r \in sessions : r.id = token /\ OnDb(SessionsSelectUsing(Anon, r))}
      session == CHOOSE r \in found : TRUE
  IN IF found = {} THEN [user |-> Anon, rows |-> sessions]
     ELSE IF session.expiresAt < web.now
          THEN [user |-> Anon, rows |-> invalidateSession(sessions, token)]
          ELSE [user |-> session.userId, rows |-> sessions]

\* A path is the sequence of its segments. Variant: only /app itself is
\* protected.
authorizationHandle_exact(path, user) ==
  IF path = <<"app">> /\ user = Anon THEN "303 /login"
  ELSE IF path \in {<<"login">>, <<"register">>} /\ user # Anon THEN "303 /app"
  ELSE "resolve"
\* pathname.startsWith('/app') is taken on the first segment.
authorizationHandle(path, user) ==
  IF path # <<>> /\ path[1] = "app" /\ user = Anon THEN "303 /login"
  ELSE IF path \in {<<"login">>, <<"register">>} /\ user # Anon THEN "303 /app"
  ELSE "resolve"

\* handle = sequence(authenticationHandle, authorizationHandle), then the
\* route: a request for path carrying cookie session = cookie ("none" when
\* absent). authenticationHandle validates the cookie and sets locals.user;
\* the logout route invalidates the cookie's session.
handle(path, cookie) ==
  LET auth == IF cookie = "none" THEN [user |-> Anon, rows |-> sessions]
              ELSE validateSession(cookie)
      res == authorizationHandle(path, auth.user)
  IN /\ sessions' = IF res = "resolve" /\ path = <<"api", "auth", "logout">>
                        /\ cookie # "none"
                     THEN invalidateSession(auth.rows, cookie)
                     ELSE auth.rows
     /\ last' = [table |-> "http", cmd |-> "request", p |-> auth.user, res |-> res,
                 row |-> [path |-> path, cookie |-> cookie]]
     /\ UNCHANGED <<contacts, groups, userGroups, books, tags, bookTags,
                    sharedTags, bookLoans, txs, web>>

\* The clock reaches day t.
Tick(t) ==
  /\ t > web.now
  /\ web' = [web EXCEPT !.now = t]
  /\ UNCHANGED <<tables, txs, last>>

InitSessions ==
  /\ txs = [t \in Txs |-> IdleTx]
  /\ last = Stmt("none", "none", Anon, "none", NoRow)
  /\ contacts = {} /\ groups = {} /\ userGroups = {} /\ books = {} /\ tags = {}
  /\ bookTags = {} /\ sharedTags = {} /\ bookLoans = {}
  /\ sessions \in {{}, {[id |-> "s1", userId |-> "u1", expiresAt |-> SESSION_EXPIRY_DAYS]}}
  /\ web \in [forced : BOOLEAN, now : {0}]

NextSessions ==
  \/ \E u \in Users, token \in Tokens : createSession(u, token)
  \/ \E path \in {<<"app">>, <<"app", "books">>, <<"login">>, <<>>,
                   <<"api", "auth", "logout">>},
        cookie \in Tokens \cup {"none"} : handle(path, cookie)
  \/ \E t \in {1, SESSION_EXPIRY_DAYS, SESSION_EXPIRY_DAYS + 1} : Tick(t)

SpecSessions == InitSessions /\ [][NextSessions]_vars
\* A step that is a request: last' records it and the clock stands.
RequestStep == last'.table = "http" /\ web' = web

\* C22: a request carrying a token whose session row is there and has not
\* expired is authenticated as the row's user; one carrying a token with no
\* row (never issued, logged out, removed) or an expired row is not
\* authenticated; the request that presents an expired token removes its
\* row, and after the logout request no row with that token is left.
C22_SessionLifetime ==
  [][RequestStep =>
       LET cookie == last'.row.cookie
           mine == {r \in sessions : r.id = cookie}
       IN /\ \A r \in mine : r.expiresAt >= web.now => last'.p = r.userId
          /\ (\A r \in mine : r.expiresAt < web.now) => last'.p = Anon
          /\ \A r \in mine : r.expiresAt < web.now => r \notin sessions'
          /\ last'.row.path = <<"api", "auth", "logout">>
               => \A r \in sessions' : r.id # cookie]_vars

NoValidSession(cookie) ==
  \A r \in sessions : r.id = cookie => r.expiresAt < web.now

\* C23: a request for a path under /app that carries no cookie, a token
\* with no session row or a token whose row has expired is answered with
\* 303 to /login; the route is not resolved and locals.user is not set.
C23_AppNeedsSession ==
  [][(RequestStep /\ last'.row.path # <<>> /\ last'.row.path[1] = "app"
      /\ NoValidSession(last'.row.cookie))
       => (last'.res = "303 /login" /\ last'.p = Anon)]_vars

\* Where row security on sessions does not apply to db, the session s1 has
\* expired and the request for /app/books that carried it was sent to
\* /login and removed the row.
C23_Witness ==
  /\ ~web.forced
  /\ web.now > SESSION_EXPIRY_DAYS
  /\ last = [table |-> "http", cmd |-> "request", p |-> Anon, res |-> "303 /login",
             row |-> [path |-> <<"app", "books">>, cookie |-> "s1"]]
  /\ \A r \in sessions : r.id # "s1"
\* The owner of the book that row tags.
TaggedBookOwner(row) == (CHOOSE b \in books : b.id = row.bookId).ownerId

\* The owner of the tagged book and p are members of one group.
OwnerIsGroupMate(p, row) ==
  \E g \in GroupIds : /\ [userId |-> p, groupId |-> g] \in userGroups
                       /\ [userId |-> TaggedBookOwner(row), groupId |-> g] \in userGroups

\* C24 as stated: a book tag is returned by P's select exactly when its
\* tagger owns the tagged book or the book's owner is in a group with P.
C24_TaggerOwnsOrGroupMate ==
  \A p \in Principals, row \in bookTags :
    row \in SelectRows("book_tags", p)
      <=> (row.taggedById = TaggedBookOwner(row) \/ OwnerIsGroupMate(p, row))

\* C24, amended: a book tag is returned by P's select exactly when P owns
\* the tagged book or the book's owner is a member of a group of which P is
\* a member too; who attached the tag plays no part.
C24_BookTagVisibility ==
  \A p \in Principals, row \in bookTags :
    row \in SelectRows("book_tags", p)
      <=> (p = TaggedBookOwner(row) \/ OwnerIsGroupMate(p, row))

\* u2 attached a tag to u1's book b1 and left the group: u1, in no group,
\* is returned the row, u2 and u3 are not.
C24_Witness ==
  \E row \in bookTags :
    /\ row.bookId = "b1" /\ row.taggedById = "u2"
    /\ userGroups = {}
    /\ row \in SelectRows("book_tags", "u1")
    /\ row \notin SelectRows("book_tags", "u2") \cup SelectRows("book_tags", "u3")
\* C25: in every state the owner of every loan is the owner of the loan's
\* book.
C25_LoanOwnerOwnsBook ==
  \A l \in bookLoans : \E b \in books : b.id = l.bookId /\ b.ownerId = l.ownerId
\* C26: whenever a user who does not own book B is returned B by a select,
\* B has a book tag attached by B's owner whose tag is shared into a group
\* of which the user is a member.
C26_OwnerWidensAudience ==
  \A u \in Users, b \in books :
    (b.ownerId # u /\ b \in SelectBooks(u)) =>
      \E bt \in bookTags, st \in sharedTags, ug \in userGroups :
        /\ bt.bookId = b.id /\ bt.taggedById = b.ownerId
        /\ st.tagId = bt.tagId
        /\ ug.groupId = st.groupId /\ ug.userId = u
\* C27: in every state at most one loan of a book has status loaned.
C27_OneLoanedPerBook ==
  \A l1 \in bookLoans, l2 \in bookLoans :
    (l1.bookId = l2.bookId /\ l1.status = "loaned" /\ l2.status = "loaned") => l1 = l2
\* C28: a contact row enters the table by an insert of its user column's
\* user, and gets status accepted only by an update of its contact column's
\* user on the row while it is pending; so every accepted row took a
\* statement of each of the two.
C28_AcceptedTakesBoth ==
  [][\A r \in contacts' \ contacts :
       \/ /\ r.status # "accepted"
          /\ last' = Stmt("contacts", "insert", r.userId, "ok", r)
       \/ /\ last' = Stmt("contacts", "update", r.contactId, "ok", r)
          /\ [r EXCEPT !.status = "pending"] \in contacts]_vars
\* ------------------------------------------------------------------------
\* SpecAlone: u2 sent u1 a contact request, u1 blocked it; u2 has a pending
\* request for b1 from the time an earlier contact was accepted. From here
\* u2 alone acts: any insert, update (of any column) and delete on contacts,
\* any update of any column of a loan.
\* ------------------------------------------------------------------------
InitAlone ==
  /\ Catalogue
  /\ SharedGroupFixture
  /\ contacts = {[userId |-> "u2", contactId |-> "u1", status |-> "blocked"]}
  /\ bookLoans = {[id |-> 1, bookId |-> "b1", requesterId |-> "u2",
                   ownerId |-> "u1", status |-> "pending"]}

NextAlone ==
  \/ \E t \in {"contacts", "book_loans"} : SelectStmt("u2", t)
  \/ \E row \in ContactRows : InsertContact("u2", row)
  \/ \E row \in contacts, new \in ContactRows : UpdateContact("u2", row, new)
  \/ \E row \in contacts : DeleteContact("u2", row)
  \/ \E row \in bookLoans, new \in LoanRows : UpdateBookLoan("u2", row, new)

SpecAlone == InitAlone /\ [][NextAlone]_vars

\* C29: an update of a loan that went through left the loan's bookId,
\* requesterId and ownerId as they were, and requester and owner differ.
C29_LoanUpdateFrame ==
  [][(last'.table = "book_loans" /\ last'.cmd = "update" /\ last'.res = "ok") =>
       /\ \E old \in bookLoans :
            /\ old.id = last'.row.id
            /\ old.bookId = last'.row.bookId
            /\ old.requesterId = last'.row.requesterId
            /\ old.ownerId = last'.row.ownerId
       /\ last'.row.requesterId # last'.row.ownerId]_vars
\* C30: u1 has blocked u2's contact request; whatever u2 does alone, the
\* contact row from u2 to u1, if there is one, is blocked: none is pending
\* or accepted.
C30_BlockingDurable ==
  \A c \in contacts : (c.userId = "u2" /\ c.contactId = "u1") => c.status = "blocked"

====
